---- MODULE Spec2Model ----
(***************************************************************************)
(* Identifier-keyed reconciliation of two tabular datasets, modelled from  *)
(* src/excel_comparator.py: create_composite_key, extract_identifier_values *)
(* and analyze_differences (Spec, SpecKey, SpecOrder), and the run over    *)
(* two workbooks of compare_excel_files, generate_summary_report and the   *)
(* main block (SpecFiles).                                                 *)
(*                                                                         *)
(* A text string is a sequence of one-character strings, so that str(),    *)
(* strip() and '|'.join() are computed character by character.  A cell     *)
(* value is a record [t, n, s]: t is its kind ("null" for a value pd.isna  *)
(* accepts, "int", "float", "str"), n its number, s its text.  A row is a  *)
(* function from the column names of its dataframe to cell values, as the  *)
(* row Series pandas hands to the code.  Row positions are 0-based as in   *)
(* the code; row i of the dataframe is df[i + 1].                          *)
(***************************************************************************)
EXTENDS Integers, Sequences, FiniteSets, TLC

VARIABLES pc, df1, columns1, df2, columns2,
          available_identifiers, missing_identifiers, log,
          df1_with_key, df2_with_key, df1_dict, df2_dict,
          common_columns, all_keys, remaining, differences, probe, run

vars == <<pc, df1, columns1, df2, columns2,
          available_identifiers, missing_identifiers, log,
          df1_with_key, df2_with_key, df1_dict, df2_dict,
          common_columns, all_keys, remaining, differences, probe, run>>

(***************************************************************************)
(* Bounds of the model.                                                    *)
(***************************************************************************)
\* The most rows a dataset has.
MaxRows == 2

\* The most rows the two datasets have together.
MaxTotalRows == 4

(***************************************************************************)
(* Program constants.                                                      *)
(***************************************************************************)
UNIQUE_IDENTIFIERS == <<"Channel Name", "Program Date", "Clip Start Time">>

NULL_TOKEN == <<"N", "U", "L", "L">>

MISSING_TOKEN == <<"M", "I", "S", "S", "I", "N", "G">>

SEPARATOR == <<"|">>

KEY_COLUMN == "COMPOSITE_KEY"

(***************************************************************************)
(* Cell values and the conversions the code applies to them.               *)
(***************************************************************************)
Null == [t |-> "null", n |-> 0, s |-> <<>>]

IntV(k) == [t |-> "int", n |-> k, s |-> <<>>]

FloatV(k) == [t |-> "float", n |-> k, s |-> <<>>]

StrV(chars) == [t |-> "str", n |-> 0, s |-> chars]

isna(value) == value.t = "null"

Digits == <<"0", "1", "2", "3", "4", "5", "6", "7", "8", "9">>

RECURSIVE IntToStr(_)
IntToStr(k) ==
    IF k < 10 THEN <<Digits[k + 1]>>
    ELSE IntToStr(k \div 10) \o <<Digits[(k % 10) + 1]>>

\* str(value) of a non-null value: an int prints its digits, a float with a
\* whole value prints digits then ".0", a text prints itself.
str(value) ==
    CASE value.t = "int" -> IntToStr(value.n)
      [] value.t = "float" -> IntToStr(value.n) \o <<".", "0">>
      [] value.t = "str" -> value.s
      [] OTHER -> <<"n", "a", "n">>

Whitespace == {" ", "\t", "\n"}

RECURSIVE lstrip(_)
lstrip(chars) ==
    IF chars # <<>> /\ Head(chars) \in Whitespace THEN lstrip(Tail(chars))
    ELSE chars

RECURSIVE rstrip(_)
rstrip(chars) ==
    IF chars # <<>> /\ chars[Len(chars)] \in Whitespace
    THEN rstrip(SubSeq(chars, 1, Len(chars) - 1))
    ELSE chars

strip(chars) == rstrip(lstrip(chars))

\* sep.join(parts)
RECURSIVE join(_, _)
join(sep, parts) ==
    IF parts = <<>> THEN <<>>
    ELSE IF Len(parts) = 1 THEN parts[1]
    ELSE parts[1] \o sep \o join(sep, Tail(parts))

(***************************************************************************)
(* create_composite_key and extract_identifier_values.                     *)
(***************************************************************************)
\* key_part with one token for a null cell and for an absent column.
key_part_one_sentinel(row, col) ==
    IF col \in DOMAIN row
    THEN IF isna(row[col]) THEN NULL_TOKEN ELSE strip(str(row[col]))
    ELSE NULL_TOKEN

\* The normalised text of one identifier column of a row.
key_part(row, col) ==
    IF col \in DOMAIN row
    THEN IF isna(row[col]) THEN NULL_TOKEN ELSE strip(str(row[col]))
    ELSE MISSING_TOKEN

create_composite_key(row, identifier_columns) ==
    join(SEPARATOR,
         [i \in 1..Len(identifier_columns) |-> key_part(row, identifier_columns[i])])

extract_identifier_values(row, identifier_columns) ==
    [col \in {identifier_columns[i] : i \in 1..Len(identifier_columns)} |->
        key_part(row, col)]

(***************************************************************************)
(* The datasets the analysis is run on.                                    *)
(***************************************************************************)
Columns == {"Channel Name", "Program Date", "Clip Start Time", "val"}

\* The column lists of the two sheets: the same four columns; an identifier
\* absent from the left or from the right sheet; a different identifier absent
\* from each; the value column absent from the left sheet.
ColumnPairs ==
    { <<Columns, Columns>>,
      <<Columns \ {"Program Date"}, Columns>>,
      <<Columns, Columns \ {"Program Date"}>>,
      <<Columns \ {"Channel Name"}, Columns \ {"Program Date"}>>,
      <<Columns \ {"val"}, Columns>> }

Record(channel, date, time, val) ==
    [c \in Columns |->
        CASE c = "Channel Name" -> channel
          [] c = "Program Date" -> date
          [] c = "Clip Start Time" -> time
          [] OTHER -> val]

\* Two rows that differ in one value cell only, a row with another date whose
\* channel has leading whitespace and whose value is the text "5", and a row
\* with empty cells.
SampleRows ==
    { Record(StrV(<<"A">>), StrV(<<"d">>), StrV(<<"t">>), IntV(5)),
      Record(StrV(<<"A">>), StrV(<<"d">>), StrV(<<"t">>), IntV(6)),
      Record(StrV(<<" ", "A">>), StrV(<<"e">>), StrV(<<"t">>), StrV(<<"5">>)),
      Record(StrV(<<"B">>), Null, StrV(<<"t">>), Null) }

Restrict(row, cols) == [c \in cols |-> row[c]]

Datasets(cols) ==
    UNION {[1..k -> {Restrict(r, cols) : r \in SampleRows}] : k \in 0..MaxRows}

Range(seq) == {seq[i] : i \in 1..Len(seq)}

(***************************************************************************)
(* analyze_differences, step by step.                                      *)
(***************************************************************************)
EmptyDifferences ==
    [rows_only_in_file1 |-> <<>>,
     rows_only_in_file2 |-> <<>>,
     identical_rows |-> <<>>,
     modified_rows |-> <<>>,
     column_differences |-> <<>>,
     summary |-> <<>>]

NoProbe == [pc |-> "off"]

NoRun == [pc |-> "off"]

Init ==
    /\ pc = "start"
    /\ \E pair \in ColumnPairs : columns1 = pair[1] /\ columns2 = pair[2]
    /\ df1 \in Datasets(columns1)
    /\ df2 \in Datasets(columns2)
    /\ Len(df1) + Len(df2) <= MaxTotalRows
    /\ available_identifiers = <<>>
    /\ missing_identifiers = <<>>
    /\ log = {}
    /\ df1_with_key = <<>>
    /\ df2_with_key = <<>>
    /\ df1_dict = <<>>
    /\ df2_dict = <<>>
    /\ common_columns = {}
    /\ all_keys = {}
    /\ remaining = {}
    /\ differences = EmptyDifferences
    /\ probe = NoProbe
    /\ run = NoRun

\* is_available with "or" for "and".
is_available_either(identifier, cols1, cols2) ==
    identifier \in cols1 \/ identifier \in cols2

\* is_available testing the first dataframe only.
is_available_first_only(identifier, cols1, cols2) ==
    identifier \in cols1

\* if identifier in df1.columns and identifier in df2.columns
is_available(identifier, cols1, cols2) ==
    identifier \in cols1 /\ identifier \in cols2

CheckIdentifiers ==
    /\ pc = "start"
    /\ LET avail == SelectSeq(UNIQUE_IDENTIFIERS,
                              LAMBDA id : is_available(id, columns1, columns2))
           miss == SelectSeq(UNIQUE_IDENTIFIERS,
                             LAMBDA id : ~is_available(id, columns1, columns2))
       IN /\ available_identifiers' = avail
          /\ missing_identifiers' = miss
          /\ log' = (IF miss # <<>> THEN {"missing identifiers"} ELSE {})
                    \cup (IF Len(avail) < 3 THEN {"fewer than 3 identifiers"} ELSE {})
    /\ pc' = "keys"
    /\ UNCHANGED <<df1, columns1, df2, columns2, df1_with_key, df2_with_key,
                   df1_dict, df2_dict, common_columns, all_keys, remaining,
                   differences, probe, run>>

\* df_with_key = df.copy(); df_with_key['COMPOSITE_KEY'] = df_with_key.apply(...)
add_key_column(df, identifier_columns) ==
    [i \in 1..Len(df) |->
        [c \in DOMAIN df[i] \cup {KEY_COLUMN} |->
            IF c = KEY_COLUMN
            THEN StrV(create_composite_key(df[i], identifier_columns))
            ELSE df[i][c]]]

CreateKeys ==
    /\ pc = "keys"
    /\ df1_with_key' = add_key_column(df1, available_identifiers)
    /\ df2_with_key' = add_key_column(df2, available_identifiers)
    /\ pc' = "index"
    /\ UNCHANGED <<df1, columns1, df2, columns2, available_identifiers,
                   missing_identifiers, log, df1_dict, df2_dict, common_columns,
                   all_keys, remaining, differences, probe, run>>

\* dict_set that keeps the position already stored for a key.
dict_set_keep_first(d, key, idx) ==
    [k \in DOMAIN d \cup {key} |-> IF k \in DOMAIN d THEN d[k] ELSE idx]

\* d[key] = idx
dict_set(d, key, idx) ==
    [k \in DOMAIN d \cup {key} |-> IF k = key THEN idx ELSE d[k]]

\* {row['COMPOSITE_KEY']: idx for idx, row in df_with_key.iterrows()}, from
\* row position i on, rows in order.
RECURSIVE dict_from(_, _, _)
dict_from(df_with_key, i, d) ==
    IF i > Len(df_with_key) THEN d
    ELSE dict_from(df_with_key, i + 1,
                   dict_set(d, df_with_key[i][KEY_COLUMN].s, i - 1))

\* build_dict that starts at the second row.
build_dict_skip_first(df_with_key) == dict_from(df_with_key, 2, <<>>)

build_dict(df_with_key) == dict_from(df_with_key, 1, <<>>)

\* union_keys that takes the keys of the first dictionary only.
union_keys_first_only(d1, d2) == DOMAIN d1

\* all_keys = set(df1_dict.keys()) | set(df2_dict.keys())
union_keys(d1, d2) == DOMAIN d1 \cup DOMAIN d2

BuildIndex ==
    /\ pc = "index"
    /\ df1_dict' = build_dict(df1_with_key)
    /\ df2_dict' = build_dict(df2_with_key)
    /\ common_columns' = columns1 \cap columns2
    /\ all_keys' = union_keys(df1_dict', df2_dict')
    /\ remaining' = all_keys'
    /\ pc' = "loop"
    /\ UNCHANGED <<df1, columns1, df2, columns2, available_identifiers,
                   missing_identifiers, log, df1_with_key, df2_with_key,
                   differences, probe, run>>

\* value_differs comparing the cells themselves, not their str() forms.
value_differs_typed(val1, val2) ==
    IF isna(val1) /\ isna(val2) THEN FALSE
    ELSE isna(val1) \/ isna(val2) \/ val1 # val2

\* value_differs without the test for two nulls.
value_differs_no_null_skip(val1, val2) ==
    isna(val1) \/ isna(val2) \/ str(val1) # str(val2)

\* value_differs comparing the stripped str() forms.
value_differs_stripped(val1, val2) ==
    IF isna(val1) /\ isna(val2) THEN FALSE
    ELSE isna(val1) \/ isna(val2) \/ strip(str(val1)) # strip(str(val2))

\* The test of one common column of two matched rows: both null is equal;
\* otherwise a null on one side or unequal str() forms is a change.
value_differs(val1, val2) ==
    IF isna(val1) /\ isna(val2) THEN FALSE
    ELSE isna(val1) \/ isna(val2) \/ str(val1) # str(val2)

\* modified_cols_of storing the str() forms of the two cells.
modified_cols_stringified(row1, row2, cols) ==
    [col \in {c \in cols : value_differs(row1[c], row2[c])} |->
        [file1_value |-> StrV(str(row1[col])), file2_value |-> StrV(str(row2[col]))]]

\* modified_cols after the loop over common_columns
modified_cols_of(row1, row2, cols) ==
    [col \in {c \in cols : value_differs(row1[c], row2[c])} |->
        [file1_value |-> row1[col], file2_value |-> row2[col]]]

\* df.iloc[idx]
iloc(df, idx) == df[idx + 1]

\* row.to_dict()
to_dict(row) == row

\* modified_entry that records the number of keys visited so far as the
\* position of the left row.
modified_entry_numbered(key, row1_idx, row2_idx, modified_cols, row1) ==
    [composite_key |-> key,
     file1_index |-> Cardinality(all_keys \ remaining),
     file2_index |-> row2_idx,
     modified_columns |-> modified_cols,
     identifier_values |-> extract_identifier_values(row1, available_identifiers)]

\* The record appended for a key in both dictionaries that has changed columns.
modified_entry(key, row1_idx, row2_idx, modified_cols, row1) ==
    [composite_key |-> key,
     file1_index |-> row1_idx,
     file2_index |-> row2_idx,
     modified_columns |-> modified_cols,
     identifier_values |-> extract_identifier_values(row1, available_identifiers)]

identical_entry(key, row1_idx, row2_idx, row1) ==
    [composite_key |-> key,
     file1_index |-> row1_idx,
     file2_index |-> row2_idx,
     identifier_values |-> extract_identifier_values(row1, available_identifiers)]

\* only_file1_entry taking the row with its key column.
only_file1_entry_keyed(key, row1_idx, row1) ==
    [composite_key |-> key,
     file1_index |-> row1_idx,
     data |-> [c \in DOMAIN row1 \cup {KEY_COLUMN} |->
                IF c = KEY_COLUMN THEN StrV(key) ELSE row1[c]],
     identifier_values |-> extract_identifier_values(row1, available_identifiers)]

only_file1_entry(key, row1_idx, row1) ==
    [composite_key |-> key,
     file1_index |-> row1_idx,
     data |-> to_dict(row1),
     identifier_values |-> extract_identifier_values(row1, available_identifiers)]

only_file2_entry(key, row2_idx, row2) ==
    [composite_key |-> key,
     file2_index |-> row2_idx,
     data |-> to_dict(row2),
     identifier_values |-> extract_identifier_values(row2, available_identifiers)]

\* One pass of the loop body for a key of both dictionaries.
LoopBoth ==
    /\ pc = "loop"
    /\ \E key \in remaining :
        /\ key \in DOMAIN df1_dict /\ key \in DOMAIN df2_dict
        /\ LET row1_idx == df1_dict[key]
               row2_idx == df2_dict[key]
               row1 == iloc(df1, row1_idx)
               row2 == iloc(df2, row2_idx)
               modified_cols == modified_cols_of(row1, row2, common_columns)
           IN differences' =
                IF DOMAIN modified_cols # {}
                THEN [differences EXCEPT !.modified_rows =
                        Append(@, modified_entry(key, row1_idx, row2_idx,
                                                 modified_cols, row1))]
                ELSE [differences EXCEPT !.identical_rows =
                        Append(@, identical_entry(key, row1_idx, row2_idx, row1))]
        /\ remaining' = remaining \ {key}
    /\ UNCHANGED <<pc, df1, columns1, df2, columns2, available_identifiers,
                   missing_identifiers, log, df1_with_key, df2_with_key,
                   df1_dict, df2_dict, common_columns, all_keys, probe, run>>

\* One pass of the loop body for a key of the first dictionary only.
LoopOnlyFile1 ==
    /\ pc = "loop"
    /\ \E key \in remaining :
        /\ ~(key \in DOMAIN df1_dict /\ key \in DOMAIN df2_dict)
        /\ key \in DOMAIN df1_dict
        /\ LET row1_idx == df1_dict[key]
               row1 == iloc(df1, row1_idx)
           IN differences' =
                [differences EXCEPT !.rows_only_in_file1 =
                    Append(@, only_file1_entry(key, row1_idx, row1))]
        /\ remaining' = remaining \ {key}
    /\ UNCHANGED <<pc, df1, columns1, df2, columns2, available_identifiers,
                   missing_identifiers, log, df1_with_key, df2_with_key,
                   df1_dict, df2_dict, common_columns, all_keys, probe, run>>

\* One pass of the loop body for a key of the second dictionary only.
LoopOnlyFile2 ==
    /\ pc = "loop"
    /\ \E key \in remaining :
        /\ ~(key \in DOMAIN df1_dict /\ key \in DOMAIN df2_dict)
        /\ key \notin DOMAIN df1_dict
        /\ LET row2_idx == df2_dict[key]
               row2 == iloc(df2, row2_idx)
           IN differences' =
                [differences EXCEPT !.rows_only_in_file2 =
                    Append(@, only_file2_entry(key, row2_idx, row2))]
        /\ remaining' = remaining \ {key}
    /\ UNCHANGED <<pc, df1, columns1, df2, columns2, available_identifiers,
                   missing_identifiers, log, df1_with_key, df2_with_key,
                   df1_dict, df2_dict, common_columns, all_keys, probe, run>>

\* differences['column_differences'] and differences['summary'], once the
\* loop has visited every key.
Summarize ==
    /\ pc = "loop"
    /\ remaining = {}
    /\ LET column_differences ==
            [file1_unique_columns |-> columns1 \ columns2,
             file2_unique_columns |-> columns2 \ columns1]
       IN differences' =
            [differences EXCEPT
                !.column_differences = column_differences,
                !.summary =
                    [total_rows_file1 |-> Len(df1),
                     total_rows_file2 |-> Len(df2),
                     rows_only_in_file1 |-> Len(differences.rows_only_in_file1),
                     rows_only_in_file2 |-> Len(differences.rows_only_in_file2),
                     identical_rows |-> Len(differences.identical_rows),
                     modified_rows |-> Len(differences.modified_rows),
                     common_columns |-> Cardinality(common_columns),
                     file1_unique_columns |->
                        Cardinality(column_differences.file1_unique_columns),
                     file2_unique_columns |->
                        Cardinality(column_differences.file2_unique_columns),
                     available_identifiers |-> available_identifiers,
                     missing_identifiers |-> missing_identifiers]]
    /\ pc' = "done"
    /\ UNCHANGED <<df1, columns1, df2, columns2, available_identifiers,
                   missing_identifiers, log, df1_with_key, df2_with_key,
                   df1_dict, df2_dict, common_columns, all_keys, remaining, probe, run>>

Next ==
    \/ CheckIdentifiers
    \/ CreateKeys
    \/ BuildIndex
    \/ LoopBoth
    \/ LoopOnlyFile1
    \/ LoopOnlyFile2
    \/ Summarize

Spec == Init /\ [][Next]_vars

(***************************************************************************)
(* create_composite_key on its own: two calls on two rows with one         *)
(* identifier list.  The rows may lack columns of the list.                *)
(***************************************************************************)
ProbeColumns == {"Channel Name", "Program Date"}

ProbeValues ==
    { Null, StrV(NULL_TOKEN), StrV(MISSING_TOKEN),
      StrV(<<"a">>), StrV(<<" ", "a">>), StrV(<<"b">>),
      StrV(<<"a", "|", "b">>), StrV(<<"b", "|", "b">>),
      IntV(5), StrV(<<"5">>) }

ProbeRows ==
    UNION {[cols -> ProbeValues] : cols \in SUBSET ProbeColumns}

ProbeIdentifierLists ==
    { <<"Channel Name">>,
      <<"Channel Name", "Program Date">>,
      <<"Program Date", "Channel Name">>,
      UNIQUE_IDENTIFIERS }

InitKey ==
    /\ pc = "idle"
    /\ df1 = <<>>
    /\ columns1 = {}
    /\ df2 = <<>>
    /\ columns2 = {}
    /\ available_identifiers = <<>>
    /\ missing_identifiers = <<>>
    /\ log = {}
    /\ df1_with_key = <<>>
    /\ df2_with_key = <<>>
    /\ df1_dict = <<>>
    /\ df2_dict = <<>>
    /\ common_columns = {}
    /\ all_keys = {}
    /\ remaining = {}
    /\ differences = EmptyDifferences
    /\ run = NoRun
    /\ \E rowA \in ProbeRows, rowB \in ProbeRows, ids \in ProbeIdentifierLists :
        probe = [pc |-> "first", rowA |-> rowA, rowB |-> rowB,
                 identifier_columns |-> ids, keyA |-> <<>>, keyB |-> <<>>]

KeyOfFirstRow ==
    /\ probe.pc = "first"
    /\ probe' = [probe EXCEPT
                    !.keyA = create_composite_key(probe.rowA, probe.identifier_columns),
                    !.pc = "second"]
    /\ UNCHANGED <<pc, df1, columns1, df2, columns2, available_identifiers,
                   missing_identifiers, log, df1_with_key, df2_with_key,
                   df1_dict, df2_dict, common_columns, all_keys, remaining,
                   differences, run>>

KeyOfSecondRow ==
    /\ probe.pc = "second"
    /\ probe' = [probe EXCEPT
                    !.keyB = create_composite_key(probe.rowB, probe.identifier_columns),
                    !.pc = "done"]
    /\ UNCHANGED <<pc, df1, columns1, df2, columns2, available_identifiers,
                   missing_identifiers, log, df1_with_key, df2_with_key,
                   df1_dict, df2_dict, common_columns, all_keys, remaining,
                   differences, run>>

NextKey ==
    \/ KeyOfFirstRow
    \/ KeyOfSecondRow

SpecKey == InitKey /\ [][NextKey]_vars

(***************************************************************************)
(* Matching under two orders of one identifier list: a left row and a      *)
(* right row are matched when their keys are equal (the right dictionary   *)
(* is looked up with the left key), once with the list in one order and    *)
(* once with the same identifiers in another order.                        *)
(***************************************************************************)
ProbeOrders ==
    { <<"Channel Name", "Program Date">>,
      <<"Program Date", "Channel Name">> }

InitOrder ==
    /\ pc = "idle"
    /\ df1 = <<>>
    /\ columns1 = {}
    /\ df2 = <<>>
    /\ columns2 = {}
    /\ available_identifiers = <<>>
    /\ missing_identifiers = <<>>
    /\ log = {}
    /\ df1_with_key = <<>>
    /\ df2_with_key = <<>>
    /\ df1_dict = <<>>
    /\ df2_dict = <<>>
    /\ common_columns = {}
    /\ all_keys = {}
    /\ remaining = {}
    /\ differences = EmptyDifferences
    /\ run = NoRun
    /\ \E rowA \in ProbeRows, rowB \in ProbeRows,
          ids \in ProbeOrders, permuted \in ProbeOrders :
        probe = [pc |-> "order1", rowA |-> rowA, rowB |-> rowB,
                 identifier_columns |-> ids, permuted_columns |-> permuted,
                 matched |-> FALSE, matched_permuted |-> FALSE]

MatchInOrder ==
    /\ probe.pc = "order1"
    /\ probe' = [probe EXCEPT
                    !.matched =
                        create_composite_key(probe.rowA, probe.identifier_columns)
                          = create_composite_key(probe.rowB, probe.identifier_columns),
                    !.pc = "order2"]
    /\ UNCHANGED <<pc, df1, columns1, df2, columns2, available_identifiers,
                   missing_identifiers, log, df1_with_key, df2_with_key,
                   df1_dict, df2_dict, common_columns, all_keys, remaining,
                   differences, run>>

MatchInPermutedOrder ==
    /\ probe.pc = "order2"
    /\ probe' = [probe EXCEPT
                    !.matched_permuted =
                        create_composite_key(probe.rowA, probe.permuted_columns)
                          = create_composite_key(probe.rowB, probe.permuted_columns),
                    !.pc = "done"]
    /\ UNCHANGED <<pc, df1, columns1, df2, columns2, available_identifiers,
                   missing_identifiers, log, df1_with_key, df2_with_key,
                   df1_dict, df2_dict, common_columns, all_keys, remaining,
                   differences, run>>

NextOrder ==
    \/ MatchInOrder
    \/ MatchInPermutedOrder

SpecOrder == InitOrder /\ [][NextOrder]_vars

(***************************************************************************)
(* compare_excel_files, generate_summary_report and the main block: two    *)
(* workbooks, the loop over their common sheets with analyze_differences   *)
(* run on each, the overall summary, the output file and the final         *)
(* message.  The loop takes the common sheets in any order (the order of a *)
(* list made from a set).                                                  *)
(***************************************************************************)
SheetNames == {"S1", "S2", "S3"}

\* The sheets a workbook pair can have in common.
SharedSheetNames == {"S1", "S2"}

row_a5 == Record(StrV(<<"A">>), StrV(<<"d">>), StrV(<<"t">>), IntV(5))

row_a6 == Record(StrV(<<"A">>), StrV(<<"d">>), StrV(<<"t">>), IntV(6))

row_b == Record(StrV(<<"B">>), Null, StrV(<<"t">>), Null)

Sheet(name, raises, cols1, cols2, rows1, rows2) ==
    [name |-> name, raises |-> raises, columns1 |-> cols1, columns2 |-> cols2,
     df1 |-> [i \in 1..Len(rows1) |-> Restrict(rows1[i], cols1)],
     df2 |-> [i \in 1..Len(rows2) |-> Restrict(rows2[i], cols2)]]

\* What a sheet name can stand for in the two workbooks: the same row on both
\* sides; one changed value; a row on the left only and another on the right
\* only, with a column the left sheet lacks; a row added on the right, with a
\* column the right sheet lacks; different columns missing on each side; a
\* sheet whose read raises; a sheet whose comparison raises.
SheetKinds ==
    { Sheet("same", "none", Columns, Columns, <<row_a5>>, <<row_a5>>),
      Sheet("changed", "none", Columns, Columns, <<row_a5>>, <<row_a6>>),
      Sheet("moved", "none", Columns \ {"Program Date"}, Columns,
            <<row_b>>, <<row_a5>>),
      Sheet("added", "none", Columns, Columns \ {"Program Date"},
            <<row_a5>>, <<row_a5, row_b>>),
      Sheet("columns", "none", Columns \ {"Channel Name"},
            Columns \ {"Program Date"}, <<row_a5>>, <<row_a5>>),
      Sheet("unreadable", "read", Columns, Columns, <<>>, <<>>),
      Sheet("malformed", "compare", Columns, Columns, <<row_a5>>, <<row_a6>>) }

NoReport == [printed |-> FALSE]

InitFiles ==
    /\ pc = "idle"
    /\ df1 = <<>>
    /\ columns1 = {}
    /\ df2 = <<>>
    /\ columns2 = {}
    /\ available_identifiers = <<>>
    /\ missing_identifiers = <<>>
    /\ log = {}
    /\ df1_with_key = <<>>
    /\ df2_with_key = <<>>
    /\ df1_dict = <<>>
    /\ df2_dict = <<>>
    /\ common_columns = {}
    /\ all_keys = {}
    /\ remaining = {}
    /\ differences = EmptyDifferences
    /\ probe = NoProbe
    /\ \E file1_exists \in BOOLEAN, file2_exists \in BOOLEAN,
          listing_ok \in BOOLEAN, output_path \in BOOLEAN,
          sheets1 \in SUBSET SheetNames, sheets2 \in SUBSET SharedSheetNames,
          kind \in [SharedSheetNames -> SheetKinds] :
        run = [pc |-> "begin",
               file1_exists |-> file1_exists,
               file2_exists |-> file2_exists,
               listing_ok |-> listing_ok,
               output_path |-> output_path,
               excel1_sheets |-> sheets1,
               excel2_sheets |-> sheets2,
               kind |-> kind,
               common_sheets |-> {},
               todo |-> {},
               sheet_name |-> "",
               stats |-> <<>>,
               attempted |-> {},
               errors |-> {},
               comparison_results |-> <<>>,
               report |-> NoReport,
               output_written |-> FALSE,
               result |-> "unset",
               message |-> ""]

\* return None
ReturnNone == [run EXCEPT !.result = "None", !.pc = "returned"]

analysis_vars ==
    <<pc, df1, columns1, df2, columns2, available_identifiers,
      missing_identifiers, log, df1_with_key, df2_with_key, df1_dict, df2_dict,
      common_columns, all_keys, remaining, differences>>

\* The locals of one loop iteration are dropped.
DropSheet ==
    /\ pc' = "idle"
    /\ df1' = <<>>
    /\ columns1' = {}
    /\ df2' = <<>>
    /\ columns2' = {}
    /\ available_identifiers' = <<>>
    /\ missing_identifiers' = <<>>
    /\ log' = {}
    /\ df1_with_key' = <<>>
    /\ df2_with_key' = <<>>
    /\ df1_dict' = <<>>
    /\ df2_dict' = <<>>
    /\ common_columns' = {}
    /\ all_keys' = {}
    /\ remaining' = {}
    /\ differences' = EmptyDifferences

\* The two os.path.exists tests.
CheckFiles ==
    /\ run.pc = "begin"
    /\ run' = IF ~run.file1_exists \/ ~run.file2_exists
              THEN ReturnNone
              ELSE [run EXCEPT !.pc = "list"]
    /\ UNCHANGED analysis_vars
    /\ UNCHANGED probe

\* if not common_sheets, with a test that never holds.
no_common_sheets_never(common_sheets) == FALSE

\* if not common_sheets
no_common_sheets(common_sheets) == common_sheets = {}

\* Listing the sheets of both workbooks and intersecting the lists; an
\* exception while listing, or an empty intersection, returns None.
ListSheets ==
    /\ run.pc = "list"
    /\ run' = IF ~run.listing_ok THEN ReturnNone
              ELSE LET common_sheets == run.excel1_sheets \cap run.excel2_sheets
                   IN IF no_common_sheets(common_sheets) THEN ReturnNone
                      ELSE [run EXCEPT !.common_sheets = common_sheets,
                                       !.todo = common_sheets,
                                       !.comparison_results = <<>>,
                                       !.pc = "sheets"]
    /\ UNCHANGED analysis_vars
    /\ UNCHANGED probe

\* stats with the right-only columns taken from the left difference.
sheet_statistics_copied(d1, cols1, d2, cols2) ==
    [file1_rows |-> Len(d1),
     file1_columns |-> Cardinality(cols1),
     file2_rows |-> Len(d2),
     file2_columns |-> Cardinality(cols2),
     common_columns |-> cols1 \cap cols2,
     file1_unique_columns |-> cols1 \ cols2,
     file2_unique_columns |-> cols1 \ cols2]

\* stats of one sheet; the three column lists are made from sets.
sheet_statistics(d1, cols1, d2, cols2) ==
    [file1_rows |-> Len(d1),
     file1_columns |-> Cardinality(cols1),
     file2_rows |-> Len(d2),
     file2_columns |-> Cardinality(cols2),
     common_columns |-> cols1 \cap cols2,
     file1_unique_columns |-> cols1 \ cols2,
     file2_unique_columns |-> cols2 \ cols1]

\* The next sheet of the loop is read from both workbooks, its statistics are
\* taken and analyze_differences is entered.
ReadSheet ==
    /\ run.pc = "sheets"
    /\ \E sheet_name \in run.todo :
        LET sheet == run.kind[sheet_name] IN
        /\ sheet.raises # "read"
        /\ df1' = sheet.df1
        /\ columns1' = sheet.columns1
        /\ df2' = sheet.df2
        /\ columns2' = sheet.columns2
        /\ pc' = "start"
        /\ run' = [run EXCEPT
                      !.todo = run.todo \ {sheet_name},
                      !.sheet_name = sheet_name,
                      !.attempted = run.attempted \cup {sheet_name},
                      !.stats = sheet_statistics(sheet.df1, sheet.columns1,
                                                 sheet.df2, sheet.columns2),
                      !.pc = "in_sheet"]
    /\ UNCHANGED <<available_identifiers, missing_identifiers, log,
                   df1_with_key, df2_with_key, df1_dict, df2_dict,
                   common_columns, all_keys, remaining, differences, probe>>

\* The loop after an exception, leaving the loop.
continue_after_error_break(todo) == {}

\* The loop after an exception: continue with the sheets still to do.
continue_after_error(todo) == todo

\* pd.read_excel raises: the error is printed and the loop continues.
ReadRaises ==
    /\ run.pc = "sheets"
    /\ \E sheet_name \in run.todo :
        /\ run.kind[sheet_name].raises = "read"
        /\ run' = [run EXCEPT
                      !.todo = continue_after_error(run.todo \ {sheet_name}),
                      !.attempted = run.attempted \cup {sheet_name},
                      !.errors = run.errors \cup {sheet_name}]
    /\ UNCHANGED analysis_vars
    /\ UNCHANGED probe

\* One step of analyze_differences on the current sheet.
AnalyzeSheet ==
    /\ run.pc = "in_sheet"
    /\ ~(run.kind[run.sheet_name].raises = "compare" /\ pc = "keys")
    /\ Next

\* analyze_differences raises while it builds the keys: the error is printed
\* and the loop continues.
CompareRaises ==
    /\ run.pc = "in_sheet"
    /\ run.kind[run.sheet_name].raises = "compare"
    /\ pc = "keys"
    /\ run' = [run EXCEPT
                  !.todo = continue_after_error(run.todo),
                  !.sheet_name = "",
                  !.stats = <<>>,
                  !.errors = run.errors \cup {run.sheet_name},
                  !.pc = "sheets"]
    /\ DropSheet
    /\ UNCHANGED probe

\* analyze_differences has returned: the entry of the sheet is stored and its
\* summary displayed.
StoreResult ==
    /\ run.pc = "in_sheet"
    /\ pc = "done"
    /\ run' = [run EXCEPT
                  !.comparison_results =
                      (run.sheet_name :> [statistics |-> run.stats,
                                          differences |-> differences])
                        @@ run.comparison_results,
                  !.sheet_name = "",
                  !.stats = <<>>,
                  !.pc = "sheets"]
    /\ DropSheet
    /\ UNCHANGED probe

\* The sum of one summary count over the sheets of the report.
RECURSIVE total_over(_, _, _)
total_over(comparison_results, sheets, count) ==
    IF sheets = {} THEN 0
    ELSE LET sheet_name == CHOOSE s \in sheets : TRUE
         IN comparison_results[sheet_name].differences.summary[count]
              + total_over(comparison_results, sheets \ {sheet_name}, count)

has_differences(summary) ==
    \/ summary.modified_rows > 0
    \/ summary.rows_only_in_file1 > 0
    \/ summary.rows_only_in_file2 > 0

\* The verdict without the rows found in the second file only.
verdict_ignoring_file2(total_modifications, total_missing_rows_file1, total_missing_rows_file2) ==
    IF total_modifications = 0 /\ total_missing_rows_file1 = 0
    THEN "IDENTICAL" ELSE "DIFFERENCES"

\* RESULT: Files are IDENTICAL! / Files have DIFFERENCES!
verdict(total_modifications, total_missing_rows_file1, total_missing_rows_file2) ==
    IF /\ total_modifications = 0
       /\ total_missing_rows_file1 = 0
       /\ total_missing_rows_file2 = 0
    THEN "IDENTICAL" ELSE "DIFFERENCES"

generate_summary_report(comparison_results) ==
    LET sheets == DOMAIN comparison_results
        total_modifications ==
            total_over(comparison_results, sheets, "modified_rows")
        total_missing_rows_file1 ==
            total_over(comparison_results, sheets, "rows_only_in_file1")
        total_missing_rows_file2 ==
            total_over(comparison_results, sheets, "rows_only_in_file2")
    IN [printed |-> TRUE,
        total_sheets |-> Cardinality(sheets),
        sheets_with_differences |->
            Cardinality({s \in sheets :
                has_differences(comparison_results[s].differences.summary)}),
        total_modifications |-> total_modifications,
        total_missing_rows_file1 |-> total_missing_rows_file1,
        total_missing_rows_file2 |-> total_missing_rows_file2,
        verdict |-> verdict(total_modifications, total_missing_rows_file1,
                            total_missing_rows_file2)]

\* The loop has ended: the overall summary is printed.
GenerateSummary ==
    /\ run.pc = "sheets"
    /\ run.todo = {}
    /\ run' = [run EXCEPT
                  !.report = generate_summary_report(run.comparison_results),
                  !.pc = "save"]
    /\ UNCHANGED analysis_vars
    /\ UNCHANGED probe

\* The output workbook is written when an output path was given, and the
\* report is returned.
SaveAndReturn ==
    /\ run.pc = "save"
    /\ run' = [run EXCEPT
                  !.output_written = run.output_path,
                  !.result = "results",
                  !.pc = "returned"]
    /\ UNCHANGED analysis_vars
    /\ UNCHANGED probe

\* The main block: "if results:" holds for a report with at least one sheet.
Main ==
    /\ run.pc = "returned"
    /\ run' = [run EXCEPT
                  !.message =
                      IF run.result = "results" /\ DOMAIN run.comparison_results # {}
                      THEN "Comparison completed successfully!"
                      ELSE "Comparison failed.",
                  !.pc = "exit"]
    /\ UNCHANGED analysis_vars
    /\ UNCHANGED probe

NextFiles ==
    \/ CheckFiles
    \/ ListSheets
    \/ ReadSheet
    \/ ReadRaises
    \/ AnalyzeSheet
    \/ CompareRaises
    \/ StoreResult
    \/ GenerateSummary
    \/ SaveAndReturn
    \/ Main

SpecFiles == InitFiles /\ [][NextFiles]_vars

(***************************************************************************)
(* Properties.  They are stated over the input datasets and the finished   *)
(* result, with the definitions below, which do not use the dictionaries   *)
(* or the loop.                                                            *)
(***************************************************************************)
Done == pc = "done"

\* The composite keys of the rows of a dataset, row by row.
KeyList(df) ==
    [i \in 1..Len(df) |-> create_composite_key(df[i], available_identifiers)]

\* The last position (1-based) of a key in a list of keys.
LastOf(keys, key) ==
    CHOOSE i \in 1..Len(keys) :
        keys[i] = key /\ \A j \in (i + 1)..Len(keys) : keys[j] # key

\* Computed from the two input datasets: k1, k2 the keys of the rows; left,
\* right the sets of keys; last1, last2 the last row (1-based) of each key.
Facts ==
    LET k1 == KeyList(df1)
        k2 == KeyList(df2)
    IN [k1 |-> k1,
        k2 |-> k2,
        left |-> Range(k1),
        right |-> Range(k2),
        last1 |-> [key \in Range(k1) |-> LastOf(k1, key)],
        last2 |-> [key \in Range(k2) |-> LastOf(k2, key)]]

KeysIn(list) == {list[i].composite_key : i \in 1..Len(list)}

CountKey(list, key) == Cardinality({i \in 1..Len(list) : list[i].composite_key = key})

Occurrences(key) ==
    CountKey(differences.identical_rows, key)
    + CountKey(differences.modified_rows, key)
    + CountKey(differences.rows_only_in_file1, key)
    + CountKey(differences.rows_only_in_file2, key)

\* Null-aware comparison of two cells by their string forms.
NormalizedDiffer(a, b) ==
    /\ ~(a.t = "null" /\ b.t = "null")
    /\ \/ (a.t = "null") # (b.t = "null")
       \/ str(a) # str(b)

\* The columns of both datasets in which the indexed records of a key differ.
ChangedColumns(F, key) ==
    {c \in columns1 \cap columns2 :
        NormalizedDiffer(df1[F.last1[key]][c], df2[F.last2[key]][c])}

\* C1: once analyze_differences has finished, every composite key of the left
\* or right dataset occurs exactly once in the four collections taken
\* together, and the collections hold no other key.
C1_ExhaustivePartition ==
    LET F == Facts IN
    Done =>
        /\ \A key \in F.left \cup F.right : Occurrences(key) = 1
        /\ KeysIn(differences.identical_rows) \cup KeysIn(differences.modified_rows)
           \cup KeysIn(differences.rows_only_in_file1)
           \cup KeysIn(differences.rows_only_in_file2)
             \subseteq F.left \cup F.right

C1_Witness ==
    /\ Done
    /\ differences.modified_rows # <<>>
    /\ differences.rows_only_in_file1 # <<>>
    /\ differences.rows_only_in_file2 # <<>>

\* C2: a key is in modified_rows exactly when both datasets have it and some
\* common column differs between the two indexed records; it is in
\* identical_rows exactly when both have it and no common column differs.
C2_ModifiedIffDiffers ==
    LET F == Facts IN
    Done =>
        \A key \in F.left \cup F.right \cup KeysIn(differences.modified_rows)
                   \cup KeysIn(differences.identical_rows) :
            /\ key \in KeysIn(differences.modified_rows)
                 <=> /\ key \in F.left \cap F.right
                     /\ ChangedColumns(F, key) # {}
            /\ key \in KeysIn(differences.identical_rows)
                 <=> /\ key \in F.left \cap F.right
                     /\ ChangedColumns(F, key) = {}

\* A finished run with a key in both datasets that is reported identical
\* although a common column holds a number on one side and the same digits as
\* text on the other.
C2_Witness ==
    /\ Done
    /\ \E i \in 1..Len(differences.identical_rows) :
        LET e == differences.identical_rows[i]
        IN \E c \in columns1 \cap columns2 :
            df1[e.file1_index + 1][c] # df2[e.file2_index + 1][c]

\* C3: the modified_columns of a modified record are exactly the common
\* columns that differ under the null-aware string comparison, each with the
\* two cells as they are in the rows (not their string forms); a left row and
\* a right row equal except val = 5 and val = 6 give one modified record whose
\* only changed column is val with values (5, 6).
C3_ModifiedColumnsExact ==
    LET F == Facts IN
    Done =>
        /\ \A i \in 1..Len(differences.modified_rows) :
            LET e == differences.modified_rows[i]
                row1 == df1[F.last1[e.composite_key]]
                row2 == df2[F.last2[e.composite_key]]
            IN /\ DOMAIN e.modified_columns = ChangedColumns(F, e.composite_key)
               /\ \A c \in DOMAIN e.modified_columns :
                    /\ e.modified_columns[c].file1_value = row1[c]
                    /\ e.modified_columns[c].file2_value = row2[c]
        /\ ( /\ Len(df1) = 1 /\ Len(df2) = 1
             /\ columns1 = columns2
             /\ "val" \in columns1
             /\ df1[1]["val"] = IntV(5) /\ df2[1]["val"] = IntV(6)
             /\ \A c \in columns1 \ {"val"} : df1[1][c] = df2[1][c] )
           => /\ Len(differences.modified_rows) = 1
              /\ DOMAIN differences.modified_rows[1].modified_columns = {"val"}
              /\ differences.modified_rows[1].modified_columns["val"]
                    = [file1_value |-> IntV(5), file2_value |-> IntV(6)]
              /\ differences.identical_rows = <<>>
              /\ differences.rows_only_in_file1 = <<>>
              /\ differences.rows_only_in_file2 = <<>>

\* The scenario of C3 has run: one row each, equal except val = 5 and val = 6.
C3_Witness ==
    /\ Done
    /\ Len(df1) = 1 /\ Len(df2) = 1
    /\ columns1 = Columns /\ columns2 = Columns
    /\ df1[1]["val"] = IntV(5) /\ df2[1]["val"] = IntV(6)
    /\ \A c \in Columns \ {"val"} : df1[1][c] = df2[1][c]
    /\ Len(differences.modified_rows) = 1

\* Two rows have the same value in an identifier field: the field is absent
\* from both, or null in both, or non-null in both with equal stripped text.
SameIdentifierValue(a, b, f) ==
    \/ f \notin DOMAIN a /\ f \notin DOMAIN b
    \/ /\ f \in DOMAIN a /\ f \in DOMAIN b
       /\ \/ a[f].t = "null" /\ b[f].t = "null"
          \/ /\ a[f].t # "null" /\ b[f].t # "null"
             /\ strip(str(a[f])) = strip(str(b[f]))

\* C4: the composite keys of two rows are equal exactly when the rows have the
\* same value in every identifier field (null differs from every text, a
\* separator inside a value does not merge two tuples).
C4_KeyInjective ==
    probe.pc = "done" =>
        ( probe.keyA = probe.keyB
            <=> \A k \in 1..Len(probe.identifier_columns) :
                    SameIdentifierValue(probe.rowA, probe.rowB,
                                        probe.identifier_columns[k]) )

\* Field k of the identifier list is absent from the first row and null in
\* the second, and the rows have the same value in every other field.
AbsentVersusNull(k) ==
    LET ids == probe.identifier_columns
    IN /\ ids[k] \notin DOMAIN probe.rowA
       /\ ids[k] \in DOMAIN probe.rowB
       /\ probe.rowB[ids[k]].t = "null"
       /\ \A j \in 1..Len(ids) :
            j # k => SameIdentifierValue(probe.rowA, probe.rowB, ids[j])

\* C5: a row without identifier field f and a row with f null that agrees on
\* the other identifier fields have different composite keys.
C5_MissingVersusNull ==
    probe.pc = "done" =>
        \A k \in 1..Len(probe.identifier_columns) :
            AbsentVersusNull(k) => probe.keyA # probe.keyB

C5_Witness ==
    /\ probe.pc = "done"
    /\ Len(probe.identifier_columns) = 2
    /\ AbsentVersusNull(2)
    /\ probe.identifier_columns[1] \in DOMAIN probe.rowA

StoredKey1(i) == df1_with_key[i][KEY_COLUMN].s

StoredKey2(j) == df2_with_key[j][KEY_COLUMN].s

\* Configured identifier f is absent from the left columns and null in row j
\* of the right dataset, the other configured identifiers of left row i and
\* right row j agree, and the two rows are the ones the indices hold.
AbsentLeftNullRight(F, f, i, j) ==
    /\ f \notin columns1
    /\ f \in columns2
    /\ df2[j][f].t = "null"
    /\ \A g \in Range(UNIQUE_IDENTIFIERS) \ {f} : SameIdentifierValue(df1[i], df2[j], g)
    /\ i = F.last1[F.k1[i]]
    /\ j = F.last2[F.k2[j]]

\* C6 as claimed: such a pair of rows gets unequal keys and is reported as one
\* rows_only_in_file1 entry and one rows_only_in_file2 entry.
C6_SplitIntoTwoEntries ==
    LET F == Facts IN
    Done =>
        \A f \in Range(UNIQUE_IDENTIFIERS), i \in 1..Len(df1), j \in 1..Len(df2) :
            AbsentLeftNullRight(F, f, i, j) =>
                /\ StoredKey1(i) # StoredKey2(j)
                /\ \E m \in 1..Len(differences.rows_only_in_file1) :
                        differences.rows_only_in_file1[m].file1_index = i - 1
                /\ \E m \in 1..Len(differences.rows_only_in_file2) :
                        differences.rows_only_in_file2[m].file2_index = j - 1

\* C6 amended: the identifier is listed as missing and left out of the key,
\* so the two rows get the same key and are reported as one matched pair, in
\* identical_rows or modified_rows, and in neither only-in-file collection.
C6_MatchedOnRemainingIdentifiers ==
    LET F == Facts IN
    Done =>
        \A f \in Range(UNIQUE_IDENTIFIERS), i \in 1..Len(df1), j \in 1..Len(df2) :
            AbsentLeftNullRight(F, f, i, j) =>
                /\ f \in Range(missing_identifiers)
                /\ StoredKey1(i) = StoredKey2(j)
                /\ \E e \in Range(differences.identical_rows)
                            \cup Range(differences.modified_rows) :
                        e.file1_index = i - 1 /\ e.file2_index = j - 1
                /\ StoredKey1(i) \notin KeysIn(differences.rows_only_in_file1)
                /\ StoredKey2(j) \notin KeysIn(differences.rows_only_in_file2)

C6_Witness ==
    LET F == Facts IN
    /\ Done
    /\ \E f \in Range(UNIQUE_IDENTIFIERS), i \in 1..Len(df1), j \in 1..Len(df2) :
        AbsentLeftNullRight(F, f, i, j)

\* The configured identifiers that are columns of both datasets, in order.
ConfiguredInBoth ==
    SelectSeq(UNIQUE_IDENTIFIERS, LAMBDA id : id \in columns1 \cap columns2)

PositionIn(seq, x) == CHOOSE i \in 1..Len(seq) : seq[i] = x

\* C7: available_identifiers is the configured identifiers that are columns
\* of both datasets, in configured order; missing_identifiers is the rest; the
\* two are disjoint and together the configured list; every row has every
\* available identifier, so no key lookup fails; keys are built from the
\* available identifiers only; both lists are in the summary.
C7_IdentifierAvailability ==
    /\ pc \in {"keys", "index", "loop", "done"} =>
        /\ Range(available_identifiers)
             = {id \in Range(UNIQUE_IDENTIFIERS) : id \in columns1 /\ id \in columns2}
        /\ Range(missing_identifiers)
             = Range(UNIQUE_IDENTIFIERS) \ Range(available_identifiers)
        /\ Range(available_identifiers) \cap Range(missing_identifiers) = {}
        /\ Len(available_identifiers) + Len(missing_identifiers)
             = Len(UNIQUE_IDENTIFIERS)
        /\ \A a, b \in 1..Len(available_identifiers) :
            a < b => PositionIn(UNIQUE_IDENTIFIERS, available_identifiers[a])
                        < PositionIn(UNIQUE_IDENTIFIERS, available_identifiers[b])
        /\ \A a, b \in 1..Len(missing_identifiers) :
            a < b => PositionIn(UNIQUE_IDENTIFIERS, missing_identifiers[a])
                        < PositionIn(UNIQUE_IDENTIFIERS, missing_identifiers[b])
        /\ \A id \in Range(available_identifiers) :
            /\ \A i \in 1..Len(df1) : id \in DOMAIN df1[i]
            /\ \A j \in 1..Len(df2) : id \in DOMAIN df2[j]
    /\ pc \in {"index", "loop", "done"} =>
        /\ \A i \in 1..Len(df1) :
            StoredKey1(i) = create_composite_key(df1[i], ConfiguredInBoth)
        /\ \A j \in 1..Len(df2) :
            StoredKey2(j) = create_composite_key(df2[j], ConfiguredInBoth)
    /\ Done =>
        /\ differences.summary.available_identifiers = available_identifiers
        /\ differences.summary.missing_identifiers = missing_identifiers

C7_Witness ==
    /\ Done
    /\ missing_identifiers # <<>>
    /\ available_identifiers # <<>>
    /\ df1 # <<>>
    /\ df2 # <<>>

\* Every record of the four collections, with the row positions it names.
File1Positions ==
    {e.file1_index : e \in Range(differences.identical_rows)
                            \cup Range(differences.modified_rows)
                            \cup Range(differences.rows_only_in_file1)}

File2Positions ==
    {e.file2_index : e \in Range(differences.identical_rows)
                            \cup Range(differences.modified_rows)
                            \cup Range(differences.rows_only_in_file2)}

\* C8: each index maps a key to the position of the last row that has it; the
\* records of the key name that position and carry that row's values; rows
\* before it are named by no record; duplicate keys add nothing to the log.
C8_LastRecordWins ==
    LET F == Facts IN
    Done =>
        /\ DOMAIN df1_dict = F.left
        /\ DOMAIN df2_dict = F.right
        /\ \A key \in F.left : df1_dict[key] = F.last1[key] - 1
        /\ \A key \in F.right : df2_dict[key] = F.last2[key] - 1
        /\ \A e \in Range(differences.identical_rows) \cup Range(differences.modified_rows) :
            /\ e.file1_index = F.last1[e.composite_key] - 1
            /\ e.file2_index = F.last2[e.composite_key] - 1
        /\ \A e \in Range(differences.modified_rows) :
            \A c \in DOMAIN e.modified_columns :
                /\ e.modified_columns[c].file1_value = df1[F.last1[e.composite_key]][c]
                /\ e.modified_columns[c].file2_value = df2[F.last2[e.composite_key]][c]
        /\ \A e \in Range(differences.rows_only_in_file1) :
            /\ e.file1_index = F.last1[e.composite_key] - 1
            /\ e.data = df1[F.last1[e.composite_key]]
        /\ \A e \in Range(differences.rows_only_in_file2) :
            /\ e.file2_index = F.last2[e.composite_key] - 1
            /\ e.data = df2[F.last2[e.composite_key]]
        /\ \A i \in 1..Len(df1) :
            i # F.last1[F.k1[i]] => (i - 1) \notin File1Positions
        /\ \A j \in 1..Len(df2) :
            j # F.last2[F.k2[j]] => (j - 1) \notin File2Positions
        /\ Len(available_identifiers) = Len(UNIQUE_IDENTIFIERS) => log = {}

\* Two different left rows share a key that the right dataset has too, with
\* all identifiers available.
C8_Witness ==
    LET F == Facts IN
    /\ Done
    /\ Len(available_identifiers) = Len(UNIQUE_IDENTIFIERS)
    /\ \E i, j \in 1..Len(df1) :
        /\ i < j
        /\ F.k1[i] = F.k1[j]
        /\ df1[i] # df1[j]
        /\ F.k1[i] \in F.right

\* C9: a dataset compared with a copy of itself has no modified row, no row
\* only in one file, and as many identical rows as it has distinct keys.
C9_SelfComparison ==
    LET F == Facts IN
    (Done /\ df1 = df2 /\ columns1 = columns2) =>
        /\ differences.modified_rows = <<>>
        /\ differences.rows_only_in_file1 = <<>>
        /\ differences.rows_only_in_file2 = <<>>
        /\ Len(differences.identical_rows) = Cardinality(F.left)
        /\ differences.summary.modified_rows = 0
        /\ differences.summary.rows_only_in_file1 = 0
        /\ differences.summary.rows_only_in_file2 = 0
        /\ differences.summary.identical_rows = Cardinality(F.left)

\* A self-comparison of a dataset with a duplicate key and a null cell.
C9_Witness ==
    LET F == Facts IN
    /\ Done
    /\ df1 = df2
    /\ columns1 = columns2
    /\ Cardinality(F.left) < Len(df1)
    /\ \E i \in 1..Len(df1) : \E c \in columns1 : df1[i][c].t = "null"

\* C10: a key of the left dataset only has exactly one rows_only_in_file1
\* record, whose data is the whole indexed left row (the left columns, no key
\* column) and whose file1_index is that row's position, and no record in the
\* other collections; the same for the right dataset and rows_only_in_file2.
C10_OnlyInOneFile ==
    LET F == Facts IN
    Done =>
        /\ \A key \in F.left \ F.right :
            /\ CountKey(differences.rows_only_in_file1, key) = 1
            /\ Occurrences(key) = 1
            /\ \A e \in Range(differences.rows_only_in_file1) :
                e.composite_key = key =>
                    /\ e.data = df1[F.last1[key]]
                    /\ DOMAIN e.data = columns1
                    /\ KEY_COLUMN \notin DOMAIN e.data
                    /\ e.file1_index = F.last1[key] - 1
        /\ \A key \in F.right \ F.left :
            /\ CountKey(differences.rows_only_in_file2, key) = 1
            /\ Occurrences(key) = 1
            /\ \A e \in Range(differences.rows_only_in_file2) :
                e.composite_key = key =>
                    /\ e.data = df2[F.last2[key]]
                    /\ DOMAIN e.data = columns2
                    /\ KEY_COLUMN \notin DOMAIN e.data
                    /\ e.file2_index = F.last2[key] - 1

C10_Witness ==
    /\ Done
    /\ differences.rows_only_in_file1 # <<>>
    /\ differences.rows_only_in_file2 # <<>>
    /\ differences.identical_rows # <<>>

\* The identifier values a record carries, from the row they are taken from:
\* for each identifier of both datasets, NULL for a null cell, else the
\* stripped text of the cell.
ExpectedIdentifierValues(row) ==
    [id \in Range(ConfiguredInBoth) |->
        IF row[id].t = "null" THEN NULL_TOKEN ELSE strip(str(row[id]))]

\* The record of each kind that a key must get, from the key's own last left
\* row and last right row alone.
ExpectedModified(F, key) ==
    [composite_key |-> key,
     file1_index |-> F.last1[key] - 1,
     file2_index |-> F.last2[key] - 1,
     modified_columns |->
        [c \in ChangedColumns(F, key) |->
            [file1_value |-> df1[F.last1[key]][c],
             file2_value |-> df2[F.last2[key]][c]]],
     identifier_values |-> ExpectedIdentifierValues(df1[F.last1[key]])]

ExpectedIdentical(F, key) ==
    [composite_key |-> key,
     file1_index |-> F.last1[key] - 1,
     file2_index |-> F.last2[key] - 1,
     identifier_values |-> ExpectedIdentifierValues(df1[F.last1[key]])]

ExpectedOnlyFile1(F, key) ==
    [composite_key |-> key,
     file1_index |-> F.last1[key] - 1,
     data |-> df1[F.last1[key]],
     identifier_values |-> ExpectedIdentifierValues(df1[F.last1[key]])]

ExpectedOnlyFile2(F, key) ==
    [composite_key |-> key,
     file2_index |-> F.last2[key] - 1,
     data |-> df2[F.last2[key]],
     identifier_values |-> ExpectedIdentifierValues(df2[F.last2[key]])]

\* C15: in whatever order the loop visits the keys, each key of the union is
\* visited once (the keys that have a record are the keys no longer pending,
\* each with one record), and when the loop has ended each collection holds,
\* as a set, the records determined by each key's own left and right rows.
C15_OrderIndependent ==
    LET F == Facts IN
    /\ pc \in {"loop", "done"} =>
        /\ all_keys = F.left \cup F.right
        /\ remaining \subseteq all_keys
        /\ KeysIn(differences.identical_rows) \cup KeysIn(differences.modified_rows)
           \cup KeysIn(differences.rows_only_in_file1)
           \cup KeysIn(differences.rows_only_in_file2)
             = all_keys \ remaining
        /\ \A key \in all_keys \ remaining : Occurrences(key) = 1
    /\ Done =>
        /\ remaining = {}
        /\ Range(differences.modified_rows)
             = {ExpectedModified(F, key) :
                    key \in {k \in F.left \cap F.right : ChangedColumns(F, k) # {}}}
        /\ Range(differences.identical_rows)
             = {ExpectedIdentical(F, key) :
                    key \in {k \in F.left \cap F.right : ChangedColumns(F, k) = {}}}
        /\ Range(differences.rows_only_in_file1)
             = {ExpectedOnlyFile1(F, key) : key \in F.left \ F.right}
        /\ Range(differences.rows_only_in_file2)
             = {ExpectedOnlyFile2(F, key) : key \in F.right \ F.left}

\* A finished run over three keys, two of them in the same collection, so that
\* the loop had several orders to choose from.
C15_Witness ==
    /\ Done
    /\ Cardinality(all_keys) = 3
    /\ \/ Len(differences.modified_rows) = 2
       \/ Len(differences.identical_rows) = 2
       \/ Len(differences.rows_only_in_file1) = 2

\* No two rows of a list of keys have the same key.
NoDuplicateKey(keys) ==
    \A i, j \in 1..Len(keys) : i # j => keys[i] # keys[j]

\* C17: in the summary, identical + modified + only-in-file1 is the number of
\* distinct keys of the left dataset, at most total_rows_file1 and equal to it
\* exactly when no left key is duplicated; the same on the right; each count
\* is the length of its collection.
C17_SummaryCounts ==
    LET F == Facts IN
    Done =>
        LET s == differences.summary
            left_total == s.identical_rows + s.modified_rows + s.rows_only_in_file1
            right_total == s.identical_rows + s.modified_rows + s.rows_only_in_file2
        IN /\ s.total_rows_file1 = Len(df1)
           /\ s.total_rows_file2 = Len(df2)
           /\ left_total = Cardinality(F.left)
           /\ left_total <= s.total_rows_file1
           /\ (left_total = s.total_rows_file1) <=> NoDuplicateKey(F.k1)
           /\ right_total = Cardinality(F.right)
           /\ right_total <= s.total_rows_file2
           /\ (right_total = s.total_rows_file2) <=> NoDuplicateKey(F.k2)
           /\ s.identical_rows = Len(differences.identical_rows)
           /\ s.modified_rows = Len(differences.modified_rows)
           /\ s.rows_only_in_file1 = Len(differences.rows_only_in_file1)
           /\ s.rows_only_in_file2 = Len(differences.rows_only_in_file2)

\* A finished run whose left dataset has a duplicate key and whose right
\* dataset has two rows with different keys.
C17_Witness ==
    LET F == Facts IN
    /\ Done
    /\ Len(df1) = 2 /\ ~NoDuplicateKey(F.k1)
    /\ Len(df2) = 2 /\ NoDuplicateKey(F.k2)

\* C18 as claimed: no available identifier column is among the
\* modified_columns of a modified record.
C18_NoIdentifierInModifiedColumns ==
    Done =>
        \A e \in Range(differences.modified_rows) :
            DOMAIN e.modified_columns \cap Range(available_identifiers) = {}

\* C18 amended: the two rows of a modified record have equal composite keys,
\* and an available identifier column is among its modified_columns exactly
\* when the column's two cells are not both null and one is null or their
\* unstripped string forms differ.
C18_IdentifierColumnsComparedUnstripped ==
    LET F == Facts IN
    Done =>
        \A e \in Range(differences.modified_rows) :
            /\ F.k1[e.file1_index + 1] = e.composite_key
            /\ F.k2[e.file2_index + 1] = e.composite_key
            /\ \A id \in Range(available_identifiers) :
                id \in DOMAIN e.modified_columns
                    <=> NormalizedDiffer(df1[e.file1_index + 1][id],
                                         df2[e.file2_index + 1][id])

\* A modified record whose changed columns include an identifier column whose
\* two cells differ in surrounding whitespace only.
C18_Witness ==
    /\ Done
    /\ \E e \in Range(differences.modified_rows) :
        \E id \in Range(available_identifiers) :
            /\ id \in DOMAIN e.modified_columns
            /\ e.modified_columns[id].file1_value.t = "str"
            /\ e.modified_columns[id].file2_value.t = "str"
            /\ strip(e.modified_columns[id].file1_value.s)
                 = strip(e.modified_columns[id].file2_value.s)

\* C16: a left row and a right row that are matched under one order of the
\* identifier list are matched under every other order of the same list, and
\* rows not matched under one order are matched under no other.
C16_OrderIrrelevant ==
    probe.pc = "done" => (probe.matched <=> probe.matched_permuted)

\* The sheets both workbooks have.
InBothWorkbooks == run.excel1_sheets \cap run.excel2_sheets

\* C11: for each compared sheet the statistics give the columns of the left
\* sheet that the right sheet lacks, the columns of the right sheet that the
\* left sheet lacks and the columns of both; the three sets are pairwise
\* disjoint and cover the columns of both sheets; the sheet's
\* column_differences hold the same two one-sided sets and its summary their
\* sizes and the size of the common set.
C11_ColumnSets ==
    \A s \in DOMAIN run.comparison_results :
        LET left == run.kind[s].columns1
            right == run.kind[s].columns2
            st == run.comparison_results[s].statistics
            d == run.comparison_results[s].differences
        IN /\ st.file1_unique_columns = {c \in left : c \notin right}
           /\ st.file2_unique_columns = {c \in right : c \notin left}
           /\ st.common_columns = {c \in left : c \in right}
           /\ st.file1_unique_columns \cap st.file2_unique_columns = {}
           /\ st.file1_unique_columns \cap st.common_columns = {}
           /\ st.file2_unique_columns \cap st.common_columns = {}
           /\ st.file1_unique_columns \cup st.file2_unique_columns
                \cup st.common_columns = left \cup right
           /\ d.column_differences.file1_unique_columns = st.file1_unique_columns
           /\ d.column_differences.file2_unique_columns = st.file2_unique_columns
           /\ d.summary.file1_unique_columns = Cardinality(st.file1_unique_columns)
           /\ d.summary.file2_unique_columns = Cardinality(st.file2_unique_columns)
           /\ d.summary.common_columns = Cardinality(st.common_columns)

\* A compared sheet with a column on the left only, another on the right only
\* and columns in common.
C11_Witness ==
    \E s \in DOMAIN run.comparison_results :
        LET st == run.comparison_results[s].statistics
        IN /\ st.file1_unique_columns # {}
           /\ st.file2_unique_columns # {}
           /\ st.file1_unique_columns # st.file2_unique_columns
           /\ st.common_columns # {}

\* The records of one collection over all sheets of the report, as pairs of
\* sheet and position.
AllRecords(collection) ==
    UNION {{s} \X (1..Len(run.comparison_results[s].differences[collection])) :
                s \in DOMAIN run.comparison_results}

SheetDiffers(s) ==
    LET d == run.comparison_results[s].differences
    IN d.modified_rows # <<>> \/ d.rows_only_in_file1 # <<>>
         \/ d.rows_only_in_file2 # <<>>

\* C12: the overall summary counts the sheets of the report and those with a
\* modified or one-sided record, its three totals are the sums of the sheets'
\* counts, and its verdict is identical exactly when no sheet of the report
\* has a modified or one-sided record.
C12_SummaryRollUp ==
    run.report.printed =>
        /\ run.report.total_sheets = Cardinality(DOMAIN run.comparison_results)
        /\ run.report.sheets_with_differences
             = Cardinality({s \in DOMAIN run.comparison_results : SheetDiffers(s)})
        /\ run.report.total_modifications
             = Cardinality(AllRecords("modified_rows"))
        /\ run.report.total_missing_rows_file1
             = Cardinality(AllRecords("rows_only_in_file1"))
        /\ run.report.total_missing_rows_file2
             = Cardinality(AllRecords("rows_only_in_file2"))
        /\ (run.report.verdict = "IDENTICAL")
             <=> \A s \in DOMAIN run.comparison_results : ~SheetDiffers(s)
        /\ run.report.verdict \in {"IDENTICAL", "DIFFERENCES"}

\* A summary over two sheets, one without differences and one with rows in
\* the second file only.
C12_Witness ==
    /\ run.report.printed
    /\ run.report.total_sheets = 2
    /\ run.report.sheets_with_differences = 1
    /\ run.report.total_modifications = 0
    /\ run.report.total_missing_rows_file1 = 0
    /\ run.report.total_missing_rows_file2 = 1

\* The summary counts of a sheet of each kind, compared on its own:
\* identical, modified, only in file 1, only in file 2.
CountsOfKind(name) ==
    CASE name = "same" -> <<1, 0, 0, 0>>
      [] name = "changed" -> <<0, 1, 0, 0>>
      [] name = "moved" -> <<0, 0, 1, 1>>
      [] name = "added" -> <<1, 0, 0, 1>>
      [] name = "columns" -> <<1, 0, 0, 0>>

\* C13: a sheet whose read or comparison raised has no entry in the report,
\* and when the loop has ended every other common sheet has its entry, with
\* the counts the sheet has when compared on its own, in whatever order the
\* sheets were taken.
C13_FailureIsolated ==
    /\ \A s \in run.errors : s \notin DOMAIN run.comparison_results
    /\ run.report.printed =>
        \A s \in InBothWorkbooks :
            IF run.kind[s].raises = "none"
            THEN /\ s \in DOMAIN run.comparison_results
                 /\ s \notin run.errors
                 /\ LET e == run.comparison_results[s]
                    IN /\ <<e.differences.summary.identical_rows,
                            e.differences.summary.modified_rows,
                            e.differences.summary.rows_only_in_file1,
                            e.differences.summary.rows_only_in_file2>>
                          = CountsOfKind(run.kind[s].name)
                       /\ e.statistics.file1_rows = Len(run.kind[s].df1)
                       /\ e.statistics.file2_rows = Len(run.kind[s].df2)
            ELSE /\ s \in run.errors
                 /\ s \notin DOMAIN run.comparison_results

\* A finished loop in which one sheet raised and the other was compared and
\* has a difference.
C13_Witness ==
    /\ run.report.printed
    /\ Cardinality(run.errors) = 1
    /\ \E s \in DOMAIN run.comparison_results : SheetDiffers(s)

\* C14: the run returns None exactly when a file is missing, the sheet lists
\* cannot be read or no sheet name is common, and then no sheet was read, no
\* summary printed and no output file written; in every run only sheets of
\* both workbooks are read and have entries.
C14_FatalInput ==
    /\ run.result = "None" =>
        /\ run.attempted = {}
        /\ DOMAIN run.comparison_results = {}
        /\ ~run.report.printed
        /\ ~run.output_written
    /\ run.result # "unset" =>
        ((run.result = "None")
            <=> \/ ~run.file1_exists
                \/ ~run.file2_exists
                \/ ~run.listing_ok
                \/ InBothWorkbooks = {})
    /\ run.result = "results" => run.output_written = run.output_path
    /\ run.attempted \subseteq InBothWorkbooks
    /\ DOMAIN run.comparison_results \subseteq InBothWorkbooks

\* Two existing, readable workbooks, each with a sheet, without a common
\* sheet name: None is returned although an output path was given.
C14_Witness ==
    /\ run.result = "None"
    /\ run.file1_exists /\ run.file2_exists /\ run.listing_ok
    /\ run.excel1_sheets # {} /\ run.excel2_sheets # {}
    /\ run.output_path

\* C19: when the overall verdict is identical, no sheet failed, every common
\* sheet has an entry without modified or one-sided records, and the report
\* is not empty.
C19_IdenticalMeansAllCompared ==
    (run.report.printed /\ run.report.verdict = "IDENTICAL") =>
        /\ run.errors = {}
        /\ DOMAIN run.comparison_results # {}
        /\ \A s \in InBothWorkbooks :
            /\ s \in DOMAIN run.comparison_results
            /\ ~SheetDiffers(s)

====
